---- MODULE Spec2Model ----
(***************************************************************************)
(* NutriScan-AI client side: the service worker (static/sw.js) and the     *)
(* page controller (static/js/main.js), as state machines.                 *)
(*                                                                         *)
(* Five specifications share one tuple of variables; each one moves the    *)
(* variables of one component and leaves the others at their initial       *)
(* values:                                                                 *)
(*   SpecSW    install / activate / fetch handlers of the service worker   *)
(*   Spec      the BerryBot chat widget                                    *)
(*   SpecTabs  tab switching                                               *)
(*   SpecSpin  the fortune spinner                                         *)
(*   SpecGrid  the DOMContentLoaded rendering of the produce grid          *)
(***************************************************************************)
EXTENDS Integers, Sequences, FiniteSets, TLC

VARIABLES
  \* ---- service worker (sw.js) ----
  caches,        \* CacheStorage: cache name -> set of stored request URLs
  swState,       \* lifecycle of this worker
  addAllOk,      \* URLs cache.addAll has fetched with an ok response so far
  cacheNames,    \* the array caches.keys() resolved with in the activate handler
  toDelete,      \* caches.delete() calls of the activate handler not yet settled
  attempts,      \* number of install events dispatched so far
  fetchEv,       \* the fetch event being handled
  fetchCount,    \* number of fetch events dispatched so far
  \* ---- chat widget (main.js) ----
  inputValue,    \* inputField.value
  msgContainer,  \* children of #berrybot-messages, in document order
  typingEl,      \* the closure variable typingEl (element id, Undefined at first)
  nextId,        \* identity of the next element document.createElement returns
  pending,       \* sendMessage invocations suspended at an await, by send number
  requests,      \* the fetch() calls sendMessage has made, in order
  calls,         \* number of sendMessage invocations so far
  lastCall,      \* who made the last invocation, and whether the text it started
                 \* from (the field's value, the voice transcript) was blank
  listening,     \* a SpeechRecognition session is started and has not delivered its result
  speechSupported, \* 'SpeechRecognition' in window || 'webkitSpeechRecognition' in window
  \* ---- tabs (main.js) ----
  dataTab,       \* button -> the panel id its data-tab attribute names
  activeBtns,    \* tab buttons whose classList has 'active'
  activePanels,  \* tab panels whose classList has 'active'
  lastClicked,   \* the button of the last click (NoBtn before any click)
  \* ---- fortune spinner (main.js) ----
  resultDiv,     \* children of #spinResult
  wheelTransform,\* wheel.style.transform, in degrees
  wheelTransition,\* wheel.style.transition
  rafQueue,      \* requestAnimationFrame callbacks not yet run
  timers,        \* setTimeout(..., 2000) callbacks not yet fired
  spins,         \* clicks on the spin button so far
  fired,         \* timers fired so far
  \* ---- produce grid (main.js) ----
  hasToggle,     \* document.getElementById('chartToggle') is not null
  hasPanel,      \* document.getElementById('produceChart') is not null
  chartChildren, \* children of #produceChart
  chartRevealed, \* chartPanel.classList has 'revealed'
  loadState,     \* the DOMContentLoaded handler: "pending", "done" or "threw"
  confettiCount  \* confetti() bursts fired by the toggle

swVars   == <<caches, swState, addAllOk, cacheNames, toDelete, attempts, fetchEv, fetchCount>>
chatVars == <<inputValue, msgContainer, typingEl, nextId, pending, requests, calls,
              lastCall, listening, speechSupported>>
tabVars  == <<dataTab, activeBtns, activePanels, lastClicked>>
spinVars == <<resultDiv, wheelTransform, wheelTransition, rafQueue, timers, spins, fired>>
gridVars == <<hasToggle, hasPanel, chartChildren, chartRevealed, loadState, confettiCount>>
vars     == <<swVars, chatVars, tabVars, spinVars, gridVars>>

\* What the handlers of one component leave alone.
notSW   == <<chatVars, tabVars, spinVars, gridVars>>
notChat == <<swVars, tabVars, spinVars, gridVars>>
notTabs == <<swVars, chatVars, spinVars, gridVars>>
notSpin == <<swVars, chatVars, tabVars, gridVars>>
notGrid == <<swVars, chatVars, tabVars, spinVars>>

Range(s) == {s[i] : i \in DOMAIN s}

(***************************************************************************)
(*                        SERVICE WORKER  (sw.js)                          *)
(***************************************************************************)
CACHE_NAME == "fruitveg-cache-v2"

urlsToCache ==
  << "/",
     "/login",
     "/static/css/style.css",
     "/static/js/main.js",
     "/static/manifest.json",
     "/static/images/android-chrome-192x192.png",
     "/static/images/android-chrome-512x512.png",
     "/static/images/apple-touch-icon.png",
     "/static/images/favicon-16x16.png",
     "/static/images/favicon-32x32.png",
     "/static/images/favicon.ico" >>

AssetURLs == Range(urlsToCache)

\* Names of caches left behind by earlier versions of the worker or by other code
\* of the origin.
OldCacheNames == {"fruitveg-cache-v1", "fruitveg-cache"}

\* What an old cache may hold.
OldContents == { {}, {"/", "/static/css/old.css"} }

\* Bounds.
MaxInstalls    == 2
MaxFetchEvents == 2

\* Requests the page can make through the worker.
RequestURLs == {"/", "/static/js/main.js", "/api/berrybot", "/static/css/old.css", "/predict"}
Methods     == {"GET", "POST"}

NoResponse == "undefined"

NoFetch == [phase |-> "none", url |-> "", method |-> "", response |-> NoResponse,
            netCalls |-> 0, result |-> ""]

\* A CacheStorage as this code can have left it: the current cache absent, opened but
\* never filled (an install that failed), or filled by a completed install; every old
\* cache absent or present with some content.
InitialCacheStorages ==
  { c \in UNION { [ns -> OldContents \cup {AssetURLs}] : ns \in SUBSET (OldCacheNames \cup {CACHE_NAME}) } :
      /\ \A n \in DOMAIN c \cap OldCacheNames : c[n] \in OldContents
      /\ CACHE_NAME \in DOMAIN c => c[CACHE_NAME] \in {{}, AssetURLs} }

\* caches.open(name): the cache of that name, created empty when there is none.
CachesOpen(c, name) ==
  IF name \in DOMAIN c THEN c
  ELSE [n \in DOMAIN c \cup {name} |-> IF n = name THEN {} ELSE c[n]]

\* cache.addAll(urls), at the moment it settles: the fetched responses are stored in
\* one batch when every request got an ok response, and nothing is stored otherwise.
addAll_partial(content, fetchedOk) == content \cup fetchedOk
addAll(content, fetchedOk) ==
  IF AssetURLs \subseteq fetchedOk THEN content \cup fetchedOk ELSE content

\* caches.delete(name)
CachesDelete(c, name) == [n \in DOMAIN c \ {name} |-> c[n]]

\* cacheNames.filter((name) => name !== CACHE_NAME)
StaleCaches_inverted(names) == {name \in names : name = CACHE_NAME}
StaleCaches(names) == {name \in names : name # CACHE_NAME}

\* caches.match(request): a stored response of any cache for a GET of that URL.
CachesMatch(c, url, method) ==
  IF method = "GET" /\ \E n \in DOMAIN c : url \in c[n] THEN url ELSE NoResponse

\* response || fetch(event.request): the network is asked when there is no response.
NeedsNetwork_always(response) == TRUE
NeedsNetwork(response) == response = NoResponse

\* The install event: caches.open(CACHE_NAME), then cache.addAll starts its fetches.
\* A worker whose install failed is redundant; the browser installs it anew later.
InstallEvent ==
  /\ swState \in {"parsed", "redundant"}
  /\ attempts < MaxInstalls
  /\ attempts' = attempts + 1
  /\ swState' = "installing"
  /\ caches' = CachesOpen(caches, CACHE_NAME)
  /\ addAllOk' = {}
  /\ UNCHANGED <<cacheNames, toDelete, fetchEv, fetchCount>>
  /\ UNCHANGED notSW

\* One of addAll's requests gets an ok response.
AddAllFetchOk(u) ==
  /\ swState = "installing"
  /\ u \in AssetURLs \ addAllOk
  /\ addAllOk' = addAllOk \cup {u}
  /\ UNCHANGED <<caches, swState, cacheNames, toDelete, attempts, fetchEv, fetchCount>>
  /\ UNCHANGED notSW

\* One of addAll's requests fails (network error or a non-ok status): addAll
\* rejects, the promise given to event.waitUntil rejects, the install fails.
AddAllFetchFail(u) ==
  /\ swState = "installing"
  /\ u \in AssetURLs \ addAllOk
  /\ caches' = [caches EXCEPT ![CACHE_NAME] = addAll(@, addAllOk)]
  /\ swState' = "redundant"
  /\ UNCHANGED <<addAllOk, cacheNames, toDelete, attempts, fetchEv, fetchCount>>
  /\ UNCHANGED notSW

\* Every request of addAll answered: the batch is stored and the install succeeds.
AddAllResolve ==
  /\ swState = "installing"
  /\ addAllOk = AssetURLs
  /\ caches' = [caches EXCEPT ![CACHE_NAME] = addAll(@, addAllOk)]
  /\ swState' = "installed"
  /\ UNCHANGED <<addAllOk, cacheNames, toDelete, attempts, fetchEv, fetchCount>>
  /\ UNCHANGED notSW

\* The activate event: caches.keys() resolves and every stale name gets a
\* caches.delete() call.
ActivateEvent ==
  /\ swState = "installed"
  /\ swState' = "activating"
  /\ cacheNames' = DOMAIN caches
  /\ toDelete' = StaleCaches(DOMAIN caches)
  /\ UNCHANGED <<caches, addAllOk, attempts, fetchEv, fetchCount>>
  /\ UNCHANGED notSW

\* One caches.delete(name) settles.
ActivateDelete(name) ==
  /\ swState = "activating"
  /\ name \in toDelete
  /\ caches' = CachesDelete(caches, name)
  /\ toDelete' = toDelete \ {name}
  /\ UNCHANGED <<swState, addAllOk, cacheNames, attempts, fetchEv, fetchCount>>
  /\ UNCHANGED notSW

\* Promise.all resolves: the activate handler has completed.
ActivateDone ==
  /\ swState = "activating"
  /\ toDelete = {}
  /\ swState' = "activated"
  /\ UNCHANGED <<caches, addAllOk, cacheNames, toDelete, attempts, fetchEv, fetchCount>>
  /\ UNCHANGED notSW

\* A fetch event is dispatched to the active worker: caches.match(event.request).
FetchEvent(url, method) ==
  /\ swState = "activated"
  /\ fetchEv.phase \in {"none", "done"}
  /\ fetchCount < MaxFetchEvents
  /\ fetchCount' = fetchCount + 1
  /\ fetchEv' = [phase |-> "matching", url |-> url, method |-> method,
                 response |-> NoResponse, netCalls |-> 0, result |-> ""]
  /\ UNCHANGED <<caches, swState, addAllOk, cacheNames, toDelete, attempts>>
  /\ UNCHANGED notSW

\* caches.match resolves; the handler returns the response or calls fetch().
FetchMatched ==
  /\ fetchEv.phase = "matching"
  /\ LET response == CachesMatch(caches, fetchEv.url, fetchEv.method) IN
       IF NeedsNetwork(response)
       THEN fetchEv' = [fetchEv EXCEPT !.phase = "network", !.response = response,
                                       !.netCalls = @ + 1]
       ELSE fetchEv' = [fetchEv EXCEPT !.phase = "done", !.response = response,
                                       !.result = "cached"]
  /\ UNCHANGED <<caches, swState, addAllOk, cacheNames, toDelete, attempts, fetchCount>>
  /\ UNCHANGED notSW

\* The network answers: respondWith gets the network response.
FetchNetworkOk ==
  /\ fetchEv.phase = "network"
  /\ fetchEv' = [fetchEv EXCEPT !.phase = "done", !.result = "network"]
  /\ UNCHANGED <<caches, swState, addAllOk, cacheNames, toDelete, attempts, fetchCount>>
  /\ UNCHANGED notSW

\* The network fails: the promise given to respondWith rejects.
FetchNetworkFail ==
  /\ fetchEv.phase = "network"
  /\ fetchEv' = [fetchEv EXCEPT !.phase = "done", !.result = "network-error"]
  /\ UNCHANGED <<caches, swState, addAllOk, cacheNames, toDelete, attempts, fetchCount>>
  /\ UNCHANGED notSW

SWNext ==
  \/ InstallEvent
  \/ \E u \in AssetURLs : AddAllFetchOk(u)
  \/ \E u \in AssetURLs : AddAllFetchFail(u)
  \/ AddAllResolve
  \/ ActivateEvent
  \/ \E name \in OldCacheNames \cup {CACHE_NAME} : ActivateDelete(name)
  \/ ActivateDone
  \/ \E url \in RequestURLs, method \in Methods : FetchEvent(url, method)
  \/ FetchMatched
  \/ FetchNetworkOk
  \/ FetchNetworkFail

(***************************************************************************)
(*                    BERRYBOT CHAT WIDGET  (main.js)                      *)
(***************************************************************************)
\* Strings are sequences of characters; the only whitespace character is " ".
Chars   == {" ", "a"}
MaxLen  == 2
Strings == UNION { [1..n -> Chars] : n \in 0..MaxLen }

\* Bounds.
MaxCalls == 2

Null       == <<"null">>         \* the default value of sendMessage's parameter
Undefined  == 0                  \* typingEl before the first assignment
TypingText == <<"BerryBot is typing">>
UndefinedText == <<"undefined">> \* what a template literal makes of undefined

\* The reply texts the server may send.
Replies == { <<"h", "i", "!">> }

\* What res.json() may resolve with: an object with a reply, or one without (its
\* reply is undefined, which the template literal renders as "undefined").
ReplyTexts == Replies \cup {UndefinedText}

\* String.prototype.trim()
RECURSIVE TrimStart(_)
TrimStart(s) == IF s # <<>> /\ Head(s) = " " THEN TrimStart(Tail(s)) ELSE s
RECURSIVE TrimEnd(_)
TrimEnd(s) == IF s # <<>> /\ s[Len(s)] = " " THEN TrimEnd(SubSeq(s, 1, Len(s) - 1)) ELSE s
Trim(s) == TrimEnd(TrimStart(s))

\* Array.from(e.results).map(r => r[0].transcript).join('')
RECURSIVE Join(_)
Join(results) == IF results = <<>> THEN <<>> ELSE Head(results) \o Join(Tail(results))

\* What a recognition result event may carry: one or two results.
VoiceResults ==
  { <<s>> : s \in Strings } \cup
  { <<s, t>> : s \in { x \in Strings : Len(x) <= 1 }, t \in { x \in Strings : Len(x) <= 1 } }

\* const prompt = text ?? inputField.value.trim();
Prompt_noTrim(text, value) == IF text = Null THEN value ELSE text
Prompt(text, value) == IF text = Null THEN Trim(value) ELSE text

\* !text, for the places the code tests it
Falsy(text) == text = Null \/ text = <<>>

\* appendMessage(who, text), the new element having identity id
appendMessage(container, id, who, text) ==
  Append(container, [id |-> id, who |-> who, text |-> text])

\* appendTypingIndicator(): the element typingEl is set to, appended
appendTypingIndicator(container, id) ==
  Append(container, [id |-> id, who |-> "bot", text |-> TypingText])

\* removeTypingIndicator(): typingEl?.remove()
removeTypingIndicator_noop(container, el) == container
removeTypingIndicator(container, el) ==
  LET Keep(e) == e.id # el IN SelectSeq(container, Keep)

\* fetch('/api/berrybot', {method: 'POST', ..., body: JSON.stringify({ prompt })})
BerrybotRequest(prompt) ==
  [url |-> "/api/berrybot", method |-> "POST", body |-> [prompt |-> prompt]]

NoCall == [src |-> "none", blank |-> TRUE]

\* A text that is empty or all whitespace.
IsBlank(str) == \A i \in DOMAIN str : str[i] = " "

IsTypingIndicator(e) == e.who = "bot" /\ e.text = TypingText
Ids(container) == {container[i].id : i \in DOMAIN container}

\* async function sendMessage(text = null), up to its first await
sendMessage(text) ==
  LET prompt == Prompt(text, inputValue) IN
  /\ calls < MaxCalls
  /\ calls' = calls + 1
  /\ IF prompt = <<>>
     THEN UNCHANGED <<inputValue, msgContainer, typingEl, nextId, pending, requests>>
     ELSE /\ msgContainer' = appendTypingIndicator(
                               appendMessage(msgContainer, nextId, "user", prompt), nextId + 1)
          /\ inputValue' = IF Falsy(text) THEN <<>> ELSE inputValue
          /\ typingEl' = nextId + 1
          /\ nextId' = nextId + 2
          /\ requests' = Append(requests, BerrybotRequest(prompt))
          /\ pending' = Append(pending, [prompt |-> prompt, phase |-> "fetch",
                                         userId |-> nextId, typingId |-> nextId + 1,
                                         botId |-> Undefined, reply |-> <<>>])

\* The user types a character into the input field (the keypress listener ignores
\* every key but Enter).  Typing is followed as long as a send can still come.
InputKeypressChar(ch) ==
  /\ calls < MaxCalls
  /\ Len(inputValue) < MaxLen
  /\ inputValue' = Append(inputValue, ch)
  /\ UNCHANGED <<msgContainer, typingEl, nextId, pending, requests, calls, lastCall,
                 listening, speechSupported>>
  /\ UNCHANGED notChat

\* inputField keypress with e.key === 'Enter'
InputKeypressEnter ==
  /\ sendMessage(Null)
  /\ lastCall' = [src |-> "enter", blank |-> IsBlank(inputValue)]
  /\ UNCHANGED <<listening, speechSupported>>
  /\ UNCHANGED notChat

\* sendBtn click
SendBtnClick ==
  /\ sendMessage(Null)
  /\ lastCall' = [src |-> "click", blank |-> IsBlank(inputValue)]
  /\ UNCHANGED <<listening, speechSupported>>
  /\ UNCHANGED notChat

\* voiceBtn click: a recognition session is started and its result listener added,
\* or alert() is called.  (The panel's hidden/visible classes, on which none of
\* the properties below depends, are not part of the model.)
VoiceBtnClick ==
  /\ calls < MaxCalls
  /\ listening' = speechSupported    \* recognition.start(), or alert(...) only
  /\ UNCHANGED <<inputValue, msgContainer, typingEl, nextId, pending, requests, calls,
                 lastCall, speechSupported>>
  /\ UNCHANGED notChat

\* recognition 'result' listener
RecognitionResult(results) ==
  /\ listening
  /\ listening' = FALSE
  /\ sendMessage(Trim(Join(results)))
  /\ lastCall' = [src |-> "voice", blank |-> IsBlank(Join(results))]
  /\ UNCHANGED speechSupported
  /\ UNCHANGED notChat

\* await fetch(...) resolves with a response; res.json() starts reading its body.
FetchResolve(k) ==
  /\ k \in DOMAIN pending
  /\ pending[k].phase = "fetch"
  /\ pending' = [pending EXCEPT ![k].phase = "json"]
  /\ UNCHANGED <<inputValue, msgContainer, typingEl, nextId, requests, calls, lastCall,
                 listening, speechSupported>>
  /\ UNCHANGED notChat

\* await fetch(...) rejects: sendMessage's promise rejects, nobody observes it.
FetchReject(k) ==
  /\ k \in DOMAIN pending
  /\ pending[k].phase = "fetch"
  /\ pending' = [pending EXCEPT ![k].phase = "rejected"]
  /\ UNCHANGED <<inputValue, msgContainer, typingEl, nextId, requests, calls, lastCall,
                 listening, speechSupported>>
  /\ UNCHANGED notChat

\* await res.json() resolves; const { reply } = ...; removeTypingIndicator();
\* appendMessage('bot', reply)
JsonResolve(k, reply) ==
  /\ k \in DOMAIN pending
  /\ pending[k].phase = "json"
  /\ msgContainer' = appendMessage(removeTypingIndicator(msgContainer, typingEl),
                                   nextId, "bot", reply)
  /\ nextId' = nextId + 1
  /\ pending' = [pending EXCEPT ![k].phase = "done", ![k].botId = nextId,
                                 ![k].reply = reply]
  /\ UNCHANGED <<inputValue, typingEl, requests, calls, lastCall,
                 listening, speechSupported>>
  /\ UNCHANGED notChat

\* await res.json() rejects (the body is not JSON).
JsonReject(k) ==
  /\ k \in DOMAIN pending
  /\ pending[k].phase = "json"
  /\ pending' = [pending EXCEPT ![k].phase = "rejected"]
  /\ UNCHANGED <<inputValue, msgContainer, typingEl, nextId, requests, calls, lastCall,
                 listening, speechSupported>>
  /\ UNCHANGED notChat

ChatNext ==
  \/ \E ch \in Chars : InputKeypressChar(ch)
  \/ InputKeypressEnter
  \/ SendBtnClick
  \/ VoiceBtnClick
  \/ \E results \in VoiceResults : RecognitionResult(results)
  \/ \E k \in 1..MaxCalls : FetchResolve(k)
  \/ \E k \in 1..MaxCalls : FetchReject(k)
  \/ \E k \in 1..MaxCalls, reply \in ReplyTexts : JsonResolve(k, reply)
  \/ \E k \in 1..MaxCalls : JsonReject(k)

(***************************************************************************)
(*                       TAB SWITCHING  (main.js)                          *)
(***************************************************************************)
\* Bound: the number of tab buttons, and of tab panels.
NumTabs == 3

Buttons == 1..NumTabs          \* document.querySelectorAll('.tab-btn')
Panels  == 1..NumTabs          \* document.querySelectorAll('.tab-content'), by id
NoBtn   == 0

\* forEach(x => x.classList.remove('active')) over the elements elems
RemoveActive_skip(active, elems) == active
RemoveActive(active, elems) == active \ elems

\* x.classList.add('active')
AddActive(active, x) == active \cup {x}

\* click listener of a .tab-btn
TabClick(btn) ==
  /\ activeBtns' = AddActive(RemoveActive(activeBtns, Buttons), btn)
  /\ activePanels' = AddActive(RemoveActive(activePanels, Panels), dataTab[btn])
  /\ lastClicked' = btn
  /\ UNCHANGED dataTab
  /\ UNCHANGED notTabs

TabsNext == \E btn \in Buttons : TabClick(btn)

(***************************************************************************)
(*                      FORTUNE SPINNER  (main.js)                         *)
(***************************************************************************)
fortunes ==
  << "Tip: Keep bananas away from apples to slow ripening!",
     "Fact: Kiwis have more vitamin C than oranges!",
     "Challenge: Try a fruit you have never eaten this week!",
     "Tip: Pineapple helps with digestion!",
     "Fact: Strawberries are the only fruit with seeds on the outside!" >>

\* Bounds.  Math.random() returns k / RandDenom for some k in 0 .. RandDenom - 1.
RandDenom == 7
MaxSpins  == 3

RandomValues == 0..(RandDenom - 1)

\* Math.floor(Math.random() * n), for Math.random() = k / RandDenom
FloorRandomTimes(k, n) == (k * n) \div RandDenom

\* fortunes[i], i counted from 0; undefined outside the array
FortuneAt(i) == IF i + 1 \in DOMAIN fortunes THEN fortunes[i + 1] ELSE "undefined"

H3(text) == [tag |-> "h3", text |-> text]
Placeholder == [tag |-> "p", text |-> "Spin the wheel!"]

\* resultDiv.innerHTML = `<h3>...</h3>`
SetInnerHTML_append(children, el) == Append(children, el)
SetInnerHTML(children, el) == <<el>>

\* spinBtn click: spinWheel() up to requestAnimationFrame
spinWheel ==
  /\ spins < MaxSpins
  /\ spins' = spins + 1
  /\ wheelTransition' = "none"
  /\ wheelTransform' = 0
  /\ rafQueue' = rafQueue + 1
  /\ UNCHANGED <<resultDiv, timers, fired>>
  /\ UNCHANGED notSpin

\* the requestAnimationFrame callback
AnimationFrame(k) ==
  /\ rafQueue > 0
  /\ rafQueue' = rafQueue - 1
  /\ wheelTransition' = "transform 2s ease-out"
  /\ wheelTransform' = 360 * 3 + FloorRandomTimes(k, 360)
  /\ timers' = timers + 1
  /\ UNCHANGED <<resultDiv, spins, fired>>
  /\ UNCHANGED notSpin

\* the setTimeout callback, 2000 ms later
TimerFired(k) ==
  /\ timers > 0
  /\ timers' = timers - 1
  /\ fired' = fired + 1
  /\ resultDiv' = SetInnerHTML(resultDiv, H3(FortuneAt(FloorRandomTimes(k, Len(fortunes)))))
  /\ UNCHANGED <<wheelTransform, wheelTransition, rafQueue, spins>>
  /\ UNCHANGED notSpin

SpinNext ==
  \/ spinWheel
  \/ \E k \in RandomValues : AnimationFrame(k)
  \/ \E k \in RandomValues : TimerFired(k)

(***************************************************************************)
(*                        PRODUCE GRID  (main.js)                          *)
(***************************************************************************)
\* Emoji are written as their code points.
produceList ==
  << [name |-> "Orange",      benefit |-> "Rich in Vitamin C",                      color |-> "#FFA500", emoji |-> "U+1F34A"],
     [name |-> "Pomegranate", benefit |-> "Boosts Blood Health",                    color |-> "#C62828", emoji |-> "U+1F34E"],
     [name |-> "Spinach",     benefit |-> "Good for Overall Health",                color |-> "#2E7D32", emoji |-> "U+1F96C"],
     [name |-> "Pumpkin",     benefit |-> "Aids Digestion & Gut Health",            color |-> "#F57C00", emoji |-> "U+1F383"],
     [name |-> "Apple",       benefit |-> "High in Fiber & Vitamin C",              color |-> "#D32F2F", emoji |-> "U+1F34F"],
     [name |-> "Blueberry",   benefit |-> "Packed with Antioxidants",               color |-> "#303F9F", emoji |-> "U+1FAD0"],
     [name |-> "Avocado",     benefit |-> "Heart-Healthy Monounsaturated Fats",     color |-> "#4CAF50", emoji |-> "U+1F951"],
     [name |-> "Tomato",      benefit |-> "Rich in Lycopene & Vitamins A, C",       color |-> "#E53935", emoji |-> "U+1F345"],
     [name |-> "Carrot",      benefit |-> "Supports Eye Health with Beta-Carotene", color |-> "#FB8C00", emoji |-> "U+1F955"],
     [name |-> "Broccoli",    benefit |-> "High in Fiber & Vitamins K, C",          color |-> "#388E3C", emoji |-> "U+1F966"],
     [name |-> "Kiwi",        benefit |-> "Vitamin C Powerhouse & Dietary Fiber",   color |-> "#7CB342", emoji |-> "U+1F95D"],
     [name |-> "Strawberry",  benefit |-> "Antioxidant-Rich & Vitamin C Boost",     color |-> "#E91E63", emoji |-> "U+1F353"],
     [name |-> "Mango",       benefit |-> "Rich in Vitamins A & C",                 color |-> "#FFB300", emoji |-> "U+1F96D"],
     [name |-> "Cucumber",    benefit |-> "Hydrating & Low-Calorie Snack",          color |-> "#81C784", emoji |-> "U+1F952"],
     [name |-> "Pineapple",   benefit |-> "Aids Digestion with Bromelain",          color |-> "#FF9800", emoji |-> "U+1F34D"],
     [name |-> "Banana",      benefit |-> "Great Source of Potassium",              color |-> "#FDD835", emoji |-> "U+1F34C"],
     [name |-> "Watermelon",  benefit |-> "Hydrating & Rich in Vitamins A, C",      color |-> "#FF5252", emoji |-> "U+1F349"] >>

\* Bounds.
MaxOld      == 3     \* children the chart panel may have in the served page
MaxConfetti == 2     \* clicks on the toggle

\* What the served page may have put into the chart panel.
OldNodes == { [cls |-> "loading", color |-> "", front |-> [emoji |-> "", name |-> ""], back |-> ""],
              [cls |-> "hex-card", color |-> "#000000", front |-> [emoji |-> "U+1F34A", name |-> "Orange"], back |-> "stale"],
              [cls |-> "hex-card", color |-> "#FFFFFF", front |-> [emoji |-> "U+1F34C", name |-> "Banana"], back |-> "stale"] }

\* The div.hex-card built for one entry of the list.
HexCard(item) ==
  [cls |-> "hex-card", color |-> item.color,
   front |-> [emoji |-> item.emoji, name |-> item.name], back |-> item.benefit]

\* chartPanel.innerHTML = ''
ClearPanel_keep(children) == children
ClearPanel(children) == <<>>

\* produceList.forEach(item => { ...; chartPanel.appendChild(wrap); })
RECURSIVE forEachAppend(_, _)
forEachAppend(children, list) ==
  IF list = <<>> THEN children
  ELSE forEachAppend(Append(children, HexCard(Head(list))), Tail(list))

\* The part of the DOMContentLoaded listener from line 170 on.  chartToggle is used
\* unguarded: when it is null the listener throws before the grid is rendered.
DOMContentLoaded ==
  /\ loadState = "pending"
  /\ IF ~hasToggle
     THEN /\ loadState' = "threw"
          /\ UNCHANGED chartChildren
     ELSE /\ loadState' = "done"
          /\ chartChildren' = IF hasPanel
                              THEN forEachAppend(ClearPanel(chartChildren), produceList)
                              ELSE chartChildren
  /\ UNCHANGED <<hasToggle, hasPanel, chartRevealed, confettiCount>>
  /\ UNCHANGED notGrid

\* chartToggle click; chartPanel.classList throws when chartPanel is null
ChartToggleClick ==
  /\ loadState = "done"
  /\ confettiCount < MaxConfetti
  /\ IF hasPanel
     THEN /\ chartRevealed' = ~chartRevealed
          /\ confettiCount' = confettiCount + 1
     ELSE UNCHANGED <<chartRevealed, confettiCount>>
  /\ UNCHANGED <<hasToggle, hasPanel, chartChildren, loadState>>
  /\ UNCHANGED notGrid

GridNext ==
  \/ DOMContentLoaded
  \/ ChartToggleClick

(***************************************************************************)
(*                           SPECIFICATIONS                                *)
(***************************************************************************)
\* Each specification starts one component in every state the served page or the
\* browser can hand it, and rests the other components in one state.

\* The service worker: any CacheStorage earlier installs can have left.
InitSW ==
  /\ caches \in InitialCacheStorages
  /\ swState = "parsed"
  /\ addAllOk = {}
  /\ cacheNames = {}
  /\ toDelete = {}
  /\ attempts = 0
  /\ fetchEv = NoFetch
  /\ fetchCount = 0
  /\ inputValue = <<>>
  /\ msgContainer = <<>>
  /\ typingEl = Undefined
  /\ nextId = 1
  /\ pending = <<>>
  /\ requests = <<>>
  /\ calls = 0
  /\ lastCall = NoCall
  /\ listening = FALSE
  /\ speechSupported = TRUE
  /\ dataTab = [b \in Buttons |-> b]
  /\ activeBtns = {1}
  /\ activePanels = {1}
  /\ lastClicked = NoBtn
  /\ resultDiv = <<>>
  /\ wheelTransform = 0
  /\ wheelTransition = ""
  /\ rafQueue = 0
  /\ timers = 0
  /\ spins = 0
  /\ fired = 0
  /\ hasToggle = TRUE
  /\ hasPanel = TRUE
  /\ chartChildren = <<>>
  /\ chartRevealed = FALSE
  /\ loadState = "pending"
  /\ confettiCount = 0

SpecSW == InitSW /\ [][SWNext]_vars

\* The chat widget after DOMContentLoaded, with or without speech recognition.
Init ==
  /\ caches = <<>>
  /\ swState = "parsed"
  /\ addAllOk = {}
  /\ cacheNames = {}
  /\ toDelete = {}
  /\ attempts = 0
  /\ fetchEv = NoFetch
  /\ fetchCount = 0
  /\ inputValue = <<>>
  /\ msgContainer = <<>>
  /\ typingEl = Undefined
  /\ nextId = 1
  /\ pending = <<>>
  /\ requests = <<>>
  /\ calls = 0
  /\ lastCall = NoCall
  /\ listening = FALSE
  /\ speechSupported \in BOOLEAN
  /\ dataTab = [b \in Buttons |-> b]
  /\ activeBtns = {1}
  /\ activePanels = {1}
  /\ lastClicked = NoBtn
  /\ resultDiv = <<>>
  /\ wheelTransform = 0
  /\ wheelTransition = ""
  /\ rafQueue = 0
  /\ timers = 0
  /\ spins = 0
  /\ fired = 0
  /\ hasToggle = TRUE
  /\ hasPanel = TRUE
  /\ chartChildren = <<>>
  /\ chartRevealed = FALSE
  /\ loadState = "pending"
  /\ confettiCount = 0

Spec == Init /\ [][ChatNext]_vars

\* The tabs: any prior combination of active buttons and panels; every button's
\* data-tab names one of the panels.
InitTabs ==
  /\ caches = <<>>
  /\ swState = "parsed"
  /\ addAllOk = {}
  /\ cacheNames = {}
  /\ toDelete = {}
  /\ attempts = 0
  /\ fetchEv = NoFetch
  /\ fetchCount = 0
  /\ inputValue = <<>>
  /\ msgContainer = <<>>
  /\ typingEl = Undefined
  /\ nextId = 1
  /\ pending = <<>>
  /\ requests = <<>>
  /\ calls = 0
  /\ lastCall = NoCall
  /\ listening = FALSE
  /\ speechSupported = TRUE
  /\ dataTab \in [Buttons -> Panels]
  /\ activeBtns \in SUBSET Buttons
  /\ activePanels \in SUBSET Panels
  /\ lastClicked = NoBtn
  /\ resultDiv = <<>>
  /\ wheelTransform = 0
  /\ wheelTransition = ""
  /\ rafQueue = 0
  /\ timers = 0
  /\ spins = 0
  /\ fired = 0
  /\ hasToggle = TRUE
  /\ hasPanel = TRUE
  /\ chartChildren = <<>>
  /\ chartRevealed = FALSE
  /\ loadState = "pending"
  /\ confettiCount = 0

SpecTabs == InitTabs /\ [][TabsNext]_vars

\* The spinner: the result area empty or holding the page's placeholder.
InitSpin ==
  /\ caches = <<>>
  /\ swState = "parsed"
  /\ addAllOk = {}
  /\ cacheNames = {}
  /\ toDelete = {}
  /\ attempts = 0
  /\ fetchEv = NoFetch
  /\ fetchCount = 0
  /\ inputValue = <<>>
  /\ msgContainer = <<>>
  /\ typingEl = Undefined
  /\ nextId = 1
  /\ pending = <<>>
  /\ requests = <<>>
  /\ calls = 0
  /\ lastCall = NoCall
  /\ listening = FALSE
  /\ speechSupported = TRUE
  /\ dataTab = [b \in Buttons |-> b]
  /\ activeBtns = {1}
  /\ activePanels = {1}
  /\ lastClicked = NoBtn
  /\ resultDiv \in {<<>>, <<Placeholder>>}
  /\ wheelTransform = 0
  /\ wheelTransition = ""
  /\ rafQueue = 0
  /\ timers = 0
  /\ spins = 0
  /\ fired = 0
  /\ hasToggle = TRUE
  /\ hasPanel = TRUE
  /\ chartChildren = <<>>
  /\ chartRevealed = FALSE
  /\ loadState = "pending"
  /\ confettiCount = 0

SpecSpin == InitSpin /\ [][SpinNext]_vars

\* The grid: the toggle and the panel present or absent, the panel holding whatever
\* the served page put into it.
InitGrid ==
  /\ caches = <<>>
  /\ swState = "parsed"
  /\ addAllOk = {}
  /\ cacheNames = {}
  /\ toDelete = {}
  /\ attempts = 0
  /\ fetchEv = NoFetch
  /\ fetchCount = 0
  /\ inputValue = <<>>
  /\ msgContainer = <<>>
  /\ typingEl = Undefined
  /\ nextId = 1
  /\ pending = <<>>
  /\ requests = <<>>
  /\ calls = 0
  /\ lastCall = NoCall
  /\ listening = FALSE
  /\ speechSupported = TRUE
  /\ dataTab = [b \in Buttons |-> b]
  /\ activeBtns = {1}
  /\ activePanels = {1}
  /\ lastClicked = NoBtn
  /\ resultDiv = <<>>
  /\ wheelTransform = 0
  /\ wheelTransition = ""
  /\ rafQueue = 0
  /\ timers = 0
  /\ spins = 0
  /\ fired = 0
  /\ hasToggle \in BOOLEAN
  /\ hasPanel \in BOOLEAN
  /\ chartChildren \in UNION { [1..n -> OldNodes] : n \in 0..MaxOld }
  /\ ~hasPanel => chartChildren = <<>>
  /\ chartRevealed \in BOOLEAN
  /\ ~hasPanel => chartRevealed = FALSE
  /\ loadState = "pending"
  /\ confettiCount = 0

SpecGrid == InitGrid /\ [][GridNext]_vars

(***************************************************************************)
(*                              PROPERTIES                                 *)
(***************************************************************************)

\* ---------------------------------------------------------------- C1 ----
\* C1 (SpecSW): once the activate handler has completed, whatever caches existed
\* before, exactly one cache exists and it is the one named CACHE_NAME.
C1_OnlyCurrentCacheAfterActivate ==
  swState = "activated" => DOMAIN caches = {CACHE_NAME}

\* The activate handler found both old caches next to the current one and has
\* completed.
C1_Witness ==
  /\ swState = "activated"
  /\ cacheNames = OldCacheNames \cup {CACHE_NAME}
  /\ DOMAIN caches = {CACHE_NAME}

\* ---------------------------------------------------------------- C2 ----
\* C2 (SpecSW): a fetch event whose request matches a stored entry is answered with
\* that entry and no network call; any other is passed to the network exactly once
\* and answered with what the network gave, a failure included.
RequestIsCached ==
  /\ fetchEv.method = "GET"
  /\ \E n \in DOMAIN caches : fetchEv.url \in caches[n]

C2_CacheFirstThenNetworkOnce ==
  /\ fetchEv.phase = "network" => ~RequestIsCached /\ fetchEv.netCalls = 1
  /\ fetchEv.phase = "done" =>
       IF RequestIsCached
       THEN fetchEv.result = "cached" /\ fetchEv.response = fetchEv.url /\ fetchEv.netCalls = 0
       ELSE fetchEv.result \in {"network", "network-error"} /\ fetchEv.netCalls = 1

\* A cached asset was served from the cache on the second fetch event.
C2_Witness ==
  /\ fetchCount = 2
  /\ fetchEv.phase = "done"
  /\ fetchEv.url = "/static/js/main.js"
  /\ fetchEv.result = "cached"
  /\ fetchEv.netCalls = 0

\* ---------------------------------------------------------------- C3 ----
\* C3 (SpecSW): the install is all or nothing.  It succeeds exactly when every listed
\* URL was fetched, and then every listed URL is in the cache CACHE_NAME; when it
\* fails, the attempt has stored nothing: the cache holds no proper part of the list.
C3_InstallAllOrNothing ==
  /\ swState \in {"installed", "activating", "activated"} =>
       /\ addAllOk = AssetURLs
       /\ CACHE_NAME \in DOMAIN caches
       /\ \A i \in DOMAIN urlsToCache : urlsToCache[i] \in caches[CACHE_NAME]
  /\ swState = "redundant" =>
       /\ addAllOk # AssetURLs
       /\ CACHE_NAME \in DOMAIN caches
       /\ caches[CACHE_NAME] \cap AssetURLs \in {{}, AssetURLs}

\* An install failed after ten of the eleven assets had been fetched, and the cache
\* it opened is empty.
C3_Witness ==
  /\ swState = "redundant"
  /\ Cardinality(addAllOk) = Len(urlsToCache) - 1
  /\ caches[CACHE_NAME] = {}

\* ---------------------------------------------------------------- C4 ----
\* C4 (SpecTabs): after a click on a tab button, from any prior combination, the
\* clicked button is the only active button and the panel its data-tab names is the
\* only active panel.
C4_OneActiveTab ==
  lastClicked # NoBtn =>
    /\ activeBtns = {lastClicked}
    /\ activePanels = {dataTab[lastClicked]}
    /\ Cardinality(activeBtns) = 1
    /\ Cardinality(activePanels) = 1

\* Button 2, whose data-tab names panel 3, was clicked.
C4_Witness ==
  /\ lastClicked = 2
  /\ dataTab[2] = 3
  /\ activePanels = {3}

\* ---------------------------------------------------------------- C5 ----
TypingIndicators(container) == {i \in DOMAIN container : IsTypingIndicator(container[i])}
BotBubbles(container) ==
  {i \in DOMAIN container : container[i].who = "bot" /\ ~IsTypingIndicator(container[i])}

\* C5 (Spec): a single send with the non-empty prompt p issues exactly one POST to
\* /api/berrybot with the body {prompt: p}; while the request is out the transcript is
\* the user bubble p and the typing indicator; once the reply r has arrived it is the
\* user bubble p followed by the bot bubble r, with no typing indicator.
C5_SingleSend ==
  Len(pending) = 1 =>
    LET p == pending[1].prompt IN
    /\ p # <<>>
    /\ Len(requests) = 1
    /\ requests[1].url = "/api/berrybot"
    /\ requests[1].method = "POST"
    /\ requests[1].body = [prompt |-> p]
    /\ pending[1].phase \in {"fetch", "json"} =>
         /\ Len(msgContainer) = 2
         /\ msgContainer[1].who = "user" /\ msgContainer[1].text = p
         /\ IsTypingIndicator(msgContainer[2])
    /\ pending[1].phase = "done" =>
         /\ Len(msgContainer) = 2
         /\ msgContainer[1].who = "user" /\ msgContainer[1].text = p
         /\ msgContainer[2].who = "bot" /\ msgContainer[2].text = pending[1].reply
         /\ TypingIndicators(msgContainer) = {}

\* The text typed into the field was sent with a click, as the prompt "a", and
\* answered with "hi!".
C5_Witness ==
  /\ Len(pending) = 1
  /\ lastCall = [src |-> "click", blank |-> FALSE]
  /\ pending[1].prompt = <<"a">>
  /\ pending[1].phase = "done"
  /\ pending[1].reply = <<"h", "i", "!">>

\* ---------------------------------------------------------------- C6 ----
\* C6 (Spec): an invocation of send whose text (the input field's value, or the
\* voice transcript) is empty or all whitespace issues no request, leaves the
\* transcript as it is and adds no typing indicator.
C6_BlankPromptIsNoop ==
  [][ (calls' = calls + 1 /\ lastCall'.blank) =>
        UNCHANGED <<msgContainer, requests, pending, typingEl, nextId, inputValue>> ]_vars

\* Send was invoked twice, first from the field holding two spaces and then with a
\* blank voice transcript, and no request was ever issued.
C6_Witness ==
  /\ calls = 2
  /\ inputValue = <<" ", " ">>
  /\ lastCall = [src |-> "voice", blank |-> TRUE]
  /\ requests = <<>>
  /\ msgContainer = <<>>

\* ---------------------------------------------------------------- C7 ----
\* C7 (Spec): a send whose request failed gets no bot bubble, and the typing
\* indicator added for it is in the transcript from then on.
C7_FailedSendKeepsIndicator ==
  \A k \in DOMAIN pending :
    pending[k].phase = "rejected" =>
      /\ pending[k].botId = Undefined
      /\ pending[k].typingId \in Ids(msgContainer)

\* --------------------------------------------------------------- C10 ----
\* C10 (Spec): once every send has received its successful response, in whatever
\* order, the transcript has no typing indicator and one bot bubble per send.
C10_AllAnsweredNoIndicator ==
  (pending # <<>> /\ \A k \in DOMAIN pending : pending[k].phase = "done") =>
    /\ TypingIndicators(msgContainer) = {}
    /\ Cardinality(BotBubbles(msgContainer)) = Len(pending)

\* ---------------------------------------------------------------- C8 ----
\* C8 (SpecSpin): once a timer of the spinner has fired, after any number of clicks,
\* the result area holds exactly one message, an entry of the 5-entry fortunes list.
C8_OneFortuneShown ==
  /\ Len(fortunes) = 5
  /\ fired > 0 =>
       /\ Len(resultDiv) = 1
       /\ resultDiv[1].tag = "h3"
       /\ \E i \in 1..5 : resultDiv[1].text = fortunes[i]

\* Three clicks, all three timers fired, the last entry of the list on display.
C8_Witness ==
  /\ spins = 3
  /\ fired = 3
  /\ resultDiv = <<H3(fortunes[5])>>

\* ---------------------------------------------------------------- C9 ----
\* C9 (SpecGrid): when the page's load listener has run to its end and the chart
\* panel exists, the panel holds exactly one card per entry of the 17-entry produce
\* list, in list order, with the entry's emoji and name on the front and its benefit
\* on the back, and nothing of what it held before; clicks on the toggle leave the
\* cards as they are.
C9_OneCardPerProduce ==
  /\ Len(produceList) = 17
  /\ (loadState = "done" /\ hasPanel) =>
       /\ Len(chartChildren) = 17
       /\ \A i \in 1..17 :
            /\ chartChildren[i].cls = "hex-card"
            /\ chartChildren[i].front.emoji = produceList[i].emoji
            /\ chartChildren[i].front.name = produceList[i].name
            /\ chartChildren[i].back = produceList[i].benefit

\* The grid was rendered and the toggle clicked twice.
C9_Witness ==
  /\ loadState = "done"
  /\ hasPanel
  /\ confettiCount = 2
  /\ Len(chartChildren) = 17
  /\ chartChildren[17].front.name = "Watermelon"

====
